---- MODULE Spec2Model ----
(***************************************************************************)
(* Model of the OpenGL renderer of the PBR demo (src/src/opengl.cpp):      *)
(* the resource factory (textures, framebuffers, vertex buffers), the      *)
(* program builder, the one-time environment precompute pipeline (setup),  *)
(* the per-frame render sequence and the facade lifecycle.                 *)
(*                                                                         *)
(* The OpenGL backend is modelled as a record `gl`: the names generated    *)
(* per object kind with the number of delete calls each has received, the  *)
(* attachments of every framebuffer object, the current bindings, and the  *)
(* list of backend calls issued by the handler that ran last.              *)
(***************************************************************************)
EXTENDS Integers, Sequences, FiniteSets, TLC

\* ------------------------------------------------------------------ bounds
MaxDim == 9
MaxSamples == 2
MaxFrames == 2
MaxShutdowns == 2
MaxObjects == 4

\* ------------------------------------------------------- program constants
EnvMapSize == 1024
IrmapSize == 32
BRDFLutSize == 256
GroupSize == 32
CubeFaces == 6

\* ------------------------------------------------------------- GL backend
Kinds == {"framebuffer", "renderbuffer", "texture", "buffer", "vertexarray",
          "program", "shader"}

TextureUnits == 0 .. 6

NoAttachment == <<"none", 0>>

NewGl ==
    [objs      |-> [k \in Kinds |-> <<>>],
     fbo       |-> <<>>,
     program   |-> 0,
     drawFb    |-> 0,
     vao       |-> 0,
     depthTest |-> FALSE,
     texUnit   |-> [u \in TextureUnits |-> 0],
     imgUnit   |-> [name |-> 0, level |-> 0],
     calls     |-> <<>>,
     thrown    |-> FALSE,
     asserted  |-> FALSE]

\* The bindings a call is issued under.
Ctx(g) ==
    [program |-> g.program, fb |-> g.drawFb, vao |-> g.vao,
     depthTest |-> g.depthTest, tex |-> g.texUnit, img |-> g.imgUnit]

\* One backend call appended to the list of calls.
Log(g, call, args) ==
    [g EXCEPT !.calls = Append(@, [call |-> call, args |-> args, ctx |-> Ctx(g)])]

\* glCreate*: a fresh name of the kind; a new framebuffer has no attachment.
glCreate(g, kind, call) ==
    LET n  == Len(g.objs[kind]) + 1
        g1 == [g EXCEPT !.objs[kind] = Append(@, 0)]
        g2 == IF kind = "framebuffer"
              THEN [g1 EXCEPT !.fbo = Append(@, [color |-> NoAttachment,
                                                 depth |-> NoAttachment])]
              ELSE g1
    IN  [g |-> Log(g2, call, <<n>>), v |-> n]

\* glDelete*: the named object of the kind receives a delete call; zero and
\* names that were never generated are silently ignored.
glDelete(g, kind, name, call) ==
    Log(IF name \in 1 .. Len(g.objs[kind])
        THEN [g EXCEPT !.objs[kind][name] = @ + 1]
        ELSE g,
        call, <<name>>)

\* glNamedFramebufferRenderbuffer / glNamedFramebufferTexture.
glAttach(g, fbid, point, kind, name, call) ==
    Log(IF point = "GL_COLOR_ATTACHMENT0"
        THEN [g EXCEPT !.fbo[fbid].color = <<kind, name>>]
        ELSE [g EXCEPT !.fbo[fbid].depth = <<kind, name>>],
        call, <<fbid, point, name>>)

\* glCheckNamedFramebufferStatus: a framebuffer without any attachment is
\* incomplete; otherwise the backend decides (backendOk).
glCheckNamedFramebufferStatus(g, fbid, backendOk) ==
    IF g.fbo[fbid].color = NoAttachment /\ g.fbo[fbid].depth = NoAttachment
    THEN "GL_FRAMEBUFFER_INCOMPLETE_MISSING_ATTACHMENT"
    ELSE IF backendOk THEN "GL_FRAMEBUFFER_COMPLETE"
         ELSE "GL_FRAMEBUFFER_UNSUPPORTED"

\* The objects of the backend, and those with no / one / several delete calls.
Objects(g) == UNION {{<<k, n>> : n \in 1 .. Len(g.objs[k])} : k \in Kinds}
Deletes(g, o) == g.objs[o[1]][o[2]]
Alive(g) == {o \in Objects(g) : Deletes(g, o) = 0}
DeletedTwice(g) == {o \in Objects(g) : Deletes(g, o) > 1}

\* ------------------------------------------------------- integer helpers
\* The element of a singleton: Val({e(x) : x \in {v}}) is e(v), v taken once.
Val(S) == CHOOSE x \in S : TRUE

Max(a, b) == IF a >= b THEN a ELSE b

RECURSIVE Pow2(_)
Pow2(n) == IF n = 0 THEN 1 ELSE 2 * Pow2(n - 1)

\* x >> n and a | b on non-negative ints.
ShiftRight(x, n) == x \div Pow2(n)

RECURSIVE BitOr(_, _)
BitOr(a, b) ==
    IF a = 0 THEN b
    ELSE IF b = 0 THEN a
    ELSE Max(a % 2, b % 2) + 2 * BitOr(a \div 2, b \div 2)

RECURSIVE BitAnd(_, _)
BitAnd(a, b) ==
    IF a = 0 \/ b = 0 THEN 0
    ELSE (a % 2) * (b % 2) + 2 * BitAnd(a \div 2, b \div 2)

\* --------------------------------------------------------------- handles
\* The records as their constructors leave them, and as memset leaves them.
DefaultTexture == [id |-> 0, width |-> 0, height |-> 0, levels |-> 0]
DefaultFrameBuffer ==
    [id |-> 0, width |-> 0, height |-> 0, samples |-> 0,
     colorTarget |-> 0, depthStencilTarget |-> 0]
DefaultVertexBuffer == [vbo |-> 0, ibo |-> 0, vao |-> 0, numElements |-> 0]

ZeroTexture == [id |-> 0, width |-> 0, height |-> 0, levels |-> 0]
ZeroFrameBuffer ==
    [id |-> 0, width |-> 0, height |-> 0, samples |-> 0,
     colorTarget |-> 0, depthStencilTarget |-> 0]
ZeroVertexBuffer == [vbo |-> 0, ibo |-> 0, vao |-> 0, numElements |-> 0]

\* ------------------------------------------------------ resource factory
\* The loop of createTexture: levels counted up while (width|height) >> levels.
RECURSIVE LevelsLoop(_, _)
LevelsLoop(v, levels) ==
    IF ShiftRight(v, levels) # 0 THEN LevelsLoop(v, levels + 1) ELSE levels

\* The level count with & in place of | (a variant of MipLevels).
MipLevels_and(width, height, levels) ==
    IF levels <= 0 THEN LevelsLoop(BitAnd(width, height), 1) ELSE levels

\* texture.levels as createTexture derives it from its arguments.
MipLevels(width, height, levels) ==
    IF levels <= 0 THEN LevelsLoop(BitOr(width, height), 1) ELSE levels

createTexture(g, target, width, height, internalformat, levels) ==
    LET lv == MipLevels(width, height, levels)
        c  == glCreate(g, "texture", "glCreateTextures")
        g1 == Log(c.g, "glTextureStorage2D",
                  <<c.v, lv, internalformat, width, height>>)
        g2 == Log(g1, "glTextureParameteri",
                  <<c.v, "GL_TEXTURE_MIN_FILTER",
                    IF lv > 1 THEN "GL_LINEAR_MIPMAP_LINEAR" ELSE "GL_LINEAR">>)
        g3 == Log(g2, "glTextureParameteri",
                  <<c.v, "GL_TEXTURE_MAG_FILTER", "GL_LINEAR">>)
    IN  [g |-> g3,
         v |-> [id |-> c.v, width |-> width, height |-> height, levels |-> lv]]

\* The upload and mip generation of createTexture(image, ...), lines 327-337;
\* t is the [g, v] createTexture returned, image is [width, height, hdr].
UploadImage(t, image, format) ==
    LET g1 == Log(t.g, "glTextureSubImage2D",
                  <<t.v.id, t.v.width, t.v.height, format,
                    IF image.hdr THEN "GL_FLOAT" ELSE "GL_UNSIGNED_BYTE">>)
    IN  [g |-> IF t.v.levels > 1
               THEN Log(g1, "glGenerateTextureMipmap", <<t.v.id>>)
               ELSE g1,
         v |-> t.v]

createTextureFromImage(g, image, format, internalformat, levels) ==
    UploadImage(createTexture(g, "GL_TEXTURE_2D", image.width, image.height,
                              internalformat, levels),
                image, format)

deleteTexture(g, texture) ==
    [g |-> glDelete(g, "texture", texture.id, "glDeleteTextures"),
     v |-> ZeroTexture]

\* The color attachment of createFrameBuffer.
CreateColorTarget(g, fbid, width, height, samples, colorFormat) ==
    IF colorFormat = "GL_NONE" THEN [g |-> g, v |-> DefaultFrameBuffer.colorTarget]
    ELSE IF samples > 0
    THEN LET c  == glCreate(g, "renderbuffer", "glCreateRenderbuffers")
             g1 == Log(c.g, "glNamedRenderbufferStorageMultisample",
                       <<c.v, samples, colorFormat, width, height>>)
         IN  [g |-> glAttach(g1, fbid, "GL_COLOR_ATTACHMENT0", "renderbuffer",
                             c.v, "glNamedFramebufferRenderbuffer"),
              v |-> c.v]
    ELSE LET c  == glCreate(g, "texture", "glCreateTextures")
             g1 == Log(c.g, "glTextureStorage2D",
                       <<c.v, 1, colorFormat, width, height>>)
         IN  [g |-> glAttach(g1, fbid, "GL_COLOR_ATTACHMENT0", "texture",
                             c.v, "glNamedFramebufferTexture"),
              v |-> c.v]

\* The depth/stencil attachment of createFrameBuffer.
CreateDepthStencilTarget(g, fbid, width, height, samples, depthstencilFormat) ==
    IF depthstencilFormat = "GL_NONE"
    THEN [g |-> g, v |-> DefaultFrameBuffer.depthStencilTarget]
    ELSE LET c  == glCreate(g, "renderbuffer", "glCreateRenderbuffers")
             g1 == IF samples > 0
                   THEN Log(c.g, "glNamedRenderbufferStorageMultisample",
                            <<c.v, samples, depthstencilFormat, width, height>>)
                   ELSE Log(c.g, "glNamedRenderbufferStorage",
                            <<c.v, depthstencilFormat, width, height>>)
         IN  [g |-> glAttach(g1, fbid, "GL_DEPTH_STENCIL_ATTACHMENT",
                             "renderbuffer", c.v,
                             "glNamedFramebufferRenderbuffer"),
              v |-> c.v]

\* The completeness check of createFrameBuffer, lines 378-382, and its return;
\* thrown is set when the check fails, and the handle is then not returned.
CheckFrameBuffer(g, fb0, backendOk) ==
    LET st == glCheckNamedFramebufferStatus(g, fb0.id, backendOk)
    IN  [g |-> [Log(g, "glCheckNamedFramebufferStatus", <<fb0.id, st>>)
                  EXCEPT !.thrown = (st # "GL_FRAMEBUFFER_COMPLETE")],
         v |-> fb0]

createFrameBuffer(g, width, height, samples, colorFormat, depthstencilFormat, backendOk) ==
    Val({Val({Val({
        CheckFrameBuffer(d.g, [id |-> f.v, width |-> width, height |-> height,
                               samples |-> samples, colorTarget |-> c.v,
                               depthStencilTarget |-> d.v], backendOk)
        : d \in {CreateDepthStencilTarget(c.g, f.v, width, height, samples,
                                          depthstencilFormat)}})
        : c \in {CreateColorTarget(f.g, f.v, width, height, samples,
                                   colorFormat)}})
        : f \in {glCreate(g, "framebuffer", "glCreateFramebuffers")}})

\* The attachment list resolveFramebuffer builds for srcfb.
\* (Variant: the depth/stencil attachment is never listed.)
Attachments_colorOnly(srcfb) ==
    IF srcfb.colorTarget # 0 THEN <<"GL_COLOR_ATTACHMENT0">> ELSE <<>>

Attachments(srcfb) ==
    (IF srcfb.colorTarget # 0 THEN <<"GL_COLOR_ATTACHMENT0">> ELSE <<>>)
    \o (IF srcfb.depthStencilTarget # 0
        THEN <<"GL_DEPTH_STENCIL_ATTACHMENT">> ELSE <<>>)

\* resolveFramebuffer without the early return (a variant).
resolveFramebuffer_always(g, srcfb, dstfb) ==
    LET attachments == Attachments(srcfb)
        g0 == [g EXCEPT !.asserted = @ \/ Len(attachments) = 0]
        g1 == Log(g0, "glBlitNamedFramebuffer",
                  <<srcfb.id, dstfb.id,
                    <<0, 0, srcfb.width - 1, srcfb.height - 1>>,
                    <<0, 0, dstfb.width - 1, dstfb.height - 1>>,
                    "GL_COLOR_BUFFER_BIT", "GL_NEAREST">>)
    IN  Log(g1, "glInvalidateNamedFramebufferData", <<srcfb.id, attachments>>)

\* resolveFramebuffer; asserted is set when assert(attachments.size() > 0)
\* is violated.
resolveFramebuffer(g, srcfb, dstfb) ==
    IF srcfb.id = dstfb.id THEN g
    ELSE LET attachments == Attachments(srcfb)
             g0 == [g EXCEPT !.asserted = @ \/ Len(attachments) = 0]
             g1 == Log(g0, "glBlitNamedFramebuffer",
                       <<srcfb.id, dstfb.id,
                         <<0, 0, srcfb.width - 1, srcfb.height - 1>>,
                         <<0, 0, dstfb.width - 1, dstfb.height - 1>>,
                         "GL_COLOR_BUFFER_BIT", "GL_NEAREST">>)
         IN  Log(g1, "glInvalidateNamedFramebufferData",
                 <<srcfb.id, attachments>>)

\* The destructor deleteFrameBuffer picks for the color target.
\* (Variant: the color target always taken for a texture.)
ColorTargetKind_texture(fb) == "texture"

ColorTargetKind(fb) == IF fb.samples = 0 THEN "texture" ELSE "renderbuffer"

DeleteCall(kind) ==
    IF kind = "texture" THEN "glDeleteTextures" ELSE "glDeleteRenderbuffers"

\* deleteFrameBuffer resetting the identifier only (a variant).
deleteFrameBuffer_keepTargets(g, fb) ==
    [g |-> IF fb.id # 0
           THEN glDelete(g, "framebuffer", fb.id, "glDeleteFramebuffers")
           ELSE g,
     v |-> [ZeroFrameBuffer EXCEPT !.colorTarget = fb.colorTarget]]

deleteFrameBuffer(g, fb) ==
    LET g1 == IF fb.id # 0
              THEN glDelete(g, "framebuffer", fb.id, "glDeleteFramebuffers")
              ELSE g
        g2 == IF fb.colorTarget # 0
              THEN glDelete(g1, ColorTargetKind(fb), fb.colorTarget,
                            DeleteCall(ColorTargetKind(fb)))
              ELSE g1
        g3 == IF fb.depthStencilTarget # 0
              THEN glDelete(g2, "renderbuffer", fb.depthStencilTarget,
                            "glDeleteRenderbuffers")
              ELSE g2
    IN  [g |-> g3, v |-> ZeroFrameBuffer]

\* createVertexBuffer from a mesh [vertices, faces] (their counts, small
\* enough for the cast to GLuint to be exact).  The vertex attribute layout
\* calls change nothing the model tracks.
createVertexBuffer(g, mesh) ==
    Val({Val({Val({
        [g |-> Log(a.g, "glVertexArrayElementBuffer", <<a.v, i.v>>),
         v |-> [DefaultVertexBuffer EXCEPT
                  !.numElements = mesh.faces * 3,
                  !.vbo = b.v, !.ibo = i.v, !.vao = a.v]]
        : a \in {glCreate(Log(i.g, "glNamedBufferStorage",
                              <<i.v, mesh.faces>>),
                          "vertexarray", "glCreateVertexArrays")}})
        : i \in {glCreate(Log(b.g, "glNamedBufferStorage",
                              <<b.v, mesh.vertices>>),
                          "buffer", "glCreateBuffers")}})
        : b \in {glCreate(g, "buffer", "glCreateBuffers")}})

createClipSpaceQuad(g) ==
    Val({Val({
        [g |-> a.g,
         v |-> [DefaultVertexBuffer EXCEPT !.vbo = b.v, !.vao = a.v]]
        : a \in {glCreate(Log(b.g, "glNamedBufferStorage", <<b.v, 4>>),
                          "vertexarray", "glCreateVertexArrays")}})
        : b \in {glCreate(g, "buffer", "glCreateBuffers")}})

deleteVertexBuffer(g, buffer) ==
    LET g1 == IF buffer.vao # 0
              THEN glDelete(g, "vertexarray", buffer.vao, "glDeleteVertexArrays")
              ELSE g
        g2 == IF buffer.vbo # 0
              THEN glDelete(g1, "buffer", buffer.vbo, "glDeleteBuffers")
              ELSE g1
        g3 == IF buffer.ibo # 0
              THEN glDelete(g2, "buffer", buffer.ibo, "glDeleteBuffers")
              ELSE g2
    IN  [g |-> g3, v |-> ZeroVertexBuffer]

\* ------------------------------------------------- bindings and commands
glUseProgram(g, program) ==
    Log([g EXCEPT !.program = program], "glUseProgram", <<program>>)

glBindTextureUnit(g, unit, tex) ==
    Log([g EXCEPT !.texUnit[unit] = tex], "glBindTextureUnit", <<unit, tex>>)

glBindImageTexture(g, tex, level, layered, format) ==
    Log([g EXCEPT !.imgUnit = [name |-> tex, level |-> level]],
        "glBindImageTexture", <<0, tex, level, layered, "GL_WRITE_ONLY", format>>)

glBindFramebuffer(g, fbid) ==
    Log([g EXCEPT !.drawFb = fbid], "glBindFramebuffer", <<fbid>>)

glBindVertexArray(g, vao) ==
    Log([g EXCEPT !.vao = vao], "glBindVertexArray", <<vao>>)

glDepthTest(g, on) ==
    Log([g EXCEPT !.depthTest = on], IF on THEN "glEnable" ELSE "glDisable",
        <<"GL_DEPTH_TEST">>)

glDispatchCompute(g, x, y, z) == Log(g, "glDispatchCompute", <<x, y, z>>)

\* -------------------------------------------------------- program builder
\* fault names the one step of setup that fails, if any:
\* [kind |-> "none"], [kind |-> "read" or "compile", file |-> f] or
\* [kind |-> "link", file |-> its first stage].
compileShader(g, filename, type, fault) ==
    IF g.thrown THEN [g |-> g, v |-> 0]
    ELSE IF fault.kind = "read" /\ fault.file = filename
    THEN [g |-> [g EXCEPT !.thrown = TRUE], v |-> 0]
    ELSE LET c  == glCreate(g, "shader", "glCreateShader")
             g1 == Log(c.g, "glCompileShader", <<c.v, filename, type>>)
         IN  [g |-> [g1 EXCEPT !.thrown =
                        (fault.kind = "compile" /\ fault.file = filename)],
              v |-> c.v]

RECURSIVE DeleteShaders(_, _)
DeleteShaders(g, shaders) ==
    IF shaders = <<>> THEN g
    ELSE DeleteShaders(
             glDelete(Log(g, "glDetachShader", <<Head(shaders)>>),
                      "shader", Head(shaders), "glDeleteShader"),
             Tail(shaders))

linkProgram(g, shaders, linkOk) ==
    IF g.thrown THEN [g |-> g, v |-> 0]
    ELSE LET c  == glCreate(g, "program", "glCreateProgram")
             g1 == Log(c.g, "glLinkProgram", <<c.v, shaders>>)
             g2 == DeleteShaders(g1, shaders)
         IN  [g |-> [g2 EXCEPT !.thrown = ~linkOk], v |-> c.v]

\* linkProgram({compileShader(f1, t1), ...}): the stages are compiled in
\* order, then linked.
RECURSIVE CompileAll(_, _, _)
CompileAll(c, stages, fault) ==
    IF stages = <<>> \/ c.g.thrown THEN c
    ELSE CompileAll(
             Val({[g |-> n.g, v |-> Append(c.v, n.v)]
                  : n \in {compileShader(c.g, Head(stages)[1],
                                         Head(stages)[2], fault)}}),
             Tail(stages), fault)

LinkCompiled(c, linkOk) == linkProgram(c.g, c.v, linkOk)

BuildProgram(g, stages, fault) ==
    LinkCompiled(CompileAll([g |-> g, v |-> <<>>], stages, fault),
                 ~(fault.kind = "link" /\ fault.file = stages[1][1]))

\* ---------------------------------------------------------------- facade
\* The default value of createTexture's levels parameter.
DefaultLevels == 0

\* The Renderer object before initialize.
NewRenderer ==
    [m_framebuffer        |-> DefaultFrameBuffer,
     m_resolveFramebuffer |-> DefaultFrameBuffer,
     m_screenQuad         |-> DefaultVertexBuffer,
     m_skybox             |-> DefaultVertexBuffer,
     m_pbrModel           |-> DefaultVertexBuffer,
     m_tonemapProgram     |-> 0,
     m_skyboxProgram      |-> 0,
     m_pbrProgram         |-> 0,
     m_envTexture         |-> DefaultTexture,
     m_irmapTexture       |-> DefaultTexture,
     m_spmapTexture       |-> DefaultTexture,
     m_spBRDF_LUT         |-> DefaultTexture,
     m_albedoTexture      |-> DefaultTexture,
     m_normalTexture      |-> DefaultTexture,
     m_metalnessTexture   |-> DefaultTexture,
     m_roughnessTexture   |-> DefaultTexture]

\* member = x, unless an exception is in flight (s is [g, r]; x is [g, v]).
Step(s, member, x) ==
    IF s.g.thrown THEN s
    ELSE [g |-> x.g,
          r |-> IF x.g.thrown THEN s.r ELSE [s.r EXCEPT ![member] = x.v]]

\* member = createFrameBuffer(...), = createClipSpaceQuad(), ...
FrameBufferStep(s, member, width, height, samples, colorFormat, depthstencilFormat, backendOk) ==
    Step(s, member, createFrameBuffer(s.g, width, height, samples, colorFormat,
                                      depthstencilFormat, backendOk))
QuadStep(s, member) == Step(s, member, createClipSpaceQuad(s.g))
MeshStep(s, member, mesh) == Step(s, member, createVertexBuffer(s.g, mesh))
ProgramStep(s, member, stages, fault) ==
    Step(s, member, BuildProgram(s.g, stages, fault))
ImageStep(s, member, image, format, internalformat, levels) ==
    Step(s, member,
         createTextureFromImage(s.g, image, format, internalformat, levels))

\* The window and the extension loader of initialize, lines 41-51.
CreateContext(g, r, width, height, windowOk, loaderOk) ==
    IF ~windowOk
    THEN [g |-> [Log(g, "glfwCreateWindow", <<width, height>>)
                   EXCEPT !.thrown = TRUE],
          r |-> r]
    ELSE [g |-> [Log(Log(g, "glfwCreateWindow", <<width, height>>),
                     "gladLoadGLLoader", <<>>)
                   EXCEPT !.thrown = ~loaderOk],
          r |-> r]

\* The resolve framebuffer of initialize, lines 59-64.
ResolveStep(s, width, height, samples, resolveOk) ==
    IF samples > 0
    THEN FrameBufferStep(s, "m_resolveFramebuffer", width, height, 0,
                         "GL_RGBA16F", "GL_NONE", resolveOk)
    ELSE Step(s, "m_resolveFramebuffer", [g |-> s.g, v |-> s.r.m_framebuffer])

initialize(g, r, width, height, samples, windowOk, loaderOk, mainOk, resolveOk) ==
    ResolveStep(
        FrameBufferStep(
            CreateContext(g, r, width, height, windowOk, loaderOk),
            "m_framebuffer", width, height, samples,
            "GL_RGBA16F", "GL_DEPTH24_STENCIL8", mainOk),
        width, height, samples, resolveOk)

\* The render state of setup, lines 98-100.
SetState(s) ==
    [g |-> Log(Log(Log(s.g, "glEnable", <<"GL_CULL_FACE">>),
                   "glEnable", <<"GL_TEXTURE_CUBE_MAP_SEAMLESS">>),
               "glFrontFace", <<"GL_CCW">>),
     r |-> s.r]

\* setup, lines 98-124: render state, meshes, render programs, textures.
SetupAssets(s, assets, fault) ==
    LET s1  == QuadStep(SetState(s), "m_screenQuad")
        s2  == ProgramStep(s1, "m_tonemapProgram",
                   <<<<"passthrough_vs.glsl", "GL_VERTEX_SHADER">>,
                     <<"tonemap_fs.glsl", "GL_FRAGMENT_SHADER">>>>, fault)
        s3  == MeshStep(s2, "m_skybox", assets.skybox)
        s4  == ProgramStep(s3, "m_skyboxProgram",
                   <<<<"skybox_vs.glsl", "GL_VERTEX_SHADER">>,
                     <<"skybox_fs.glsl", "GL_FRAGMENT_SHADER">>>>, fault)
        s5  == MeshStep(s4, "m_pbrModel", assets.model)
        s6  == ProgramStep(s5, "m_pbrProgram",
                   <<<<"pbr_vs.glsl", "GL_VERTEX_SHADER">>,
                     <<"pbr_fs.glsl", "GL_FRAGMENT_SHADER">>>>, fault)
        s7  == ImageStep(s6, "m_albedoTexture", assets.albedo, "GL_RGB",
                         "GL_SRGB8", DefaultLevels)
        s8  == ImageStep(s7, "m_normalTexture", assets.normal, "GL_RGB",
                         "GL_RGB8", DefaultLevels)
        s9  == ImageStep(s8, "m_metalnessTexture", assets.metalness, "GL_RED",
                         "GL_R8", DefaultLevels)
    IN  ImageStep(s9, "m_roughnessTexture", assets.roughness, "GL_RED",
                  "GL_R8", DefaultLevels)

\* Lines 135-143, with the program p, the source texture t and the cubemap env
\* (each the [g, v] its constructor returned).
EquirectDispatch(r, p, t, env) ==
    LET g1 == glUseProgram(env.g, p.v)
        g2 == glBindTextureUnit(g1, 0, t.v.id)
        g3 == glBindImageTexture(g2, env.v.id, 0, TRUE, "GL_RGBA16F")
        g4 == glDispatchCompute(g3, env.v.width \div GroupSize,
                                env.v.height \div GroupSize, CubeFaces)
        g5 == glDelete(g4, "texture", t.v.id, "glDeleteTextures")
        g6 == glDelete(g5, "program", p.v, "glDeleteProgram")
    IN  [g |-> Log(g6, "glGenerateTextureMipmap", <<env.v.id>>),
         r |-> [r EXCEPT !.m_envTexture = env.v]]

EquirectTextures(r, p, t) ==
    EquirectDispatch(r, p, t,
        createTexture(t.g, "GL_TEXTURE_CUBE_MAP", EnvMapSize, EnvMapSize,
                      "GL_RGBA16F", DefaultLevels))

EquirectProgram(s, p, assets) ==
    IF p.g.thrown THEN [g |-> p.g, r |-> s.r]
    ELSE EquirectTextures(s.r, p,
             createTextureFromImage(p.g, assets.environment, "GL_RGB",
                                    "GL_RGB16F", 1))

\* setup, lines 127-144: equirectangular environment map to cubemap.
EquirectToCube(s, assets, fault) ==
    IF s.g.thrown THEN s
    ELSE EquirectProgram(s,
             BuildProgram(s.g, <<<<"equirect2cube_cs.glsl",
                                   "GL_COMPUTE_SHADER">>>>, fault),
             assets)

\* Lines 154-158, with the program p and the irradiance cubemap ir.
IrradianceDispatch(r, p, ir) ==
    LET g1 == glUseProgram(ir.g, p.v)
        g2 == glBindTextureUnit(g1, 0, r.m_envTexture.id)
        g3 == glBindImageTexture(g2, ir.v.id, 0, TRUE, "GL_RGBA16F")
        g4 == glDispatchCompute(g3, ir.v.width \div GroupSize,
                                ir.v.height \div GroupSize, CubeFaces)
    IN  [g |-> glDelete(g4, "program", p.v, "glDeleteProgram"),
         r |-> [r EXCEPT !.m_irmapTexture = ir.v]]

IrradianceProgram(s, p) ==
    IF p.g.thrown THEN [g |-> p.g, r |-> s.r]
    ELSE IrradianceDispatch(s.r, p,
             createTexture(p.g, "GL_TEXTURE_CUBE_MAP", IrmapSize, IrmapSize,
                           "GL_RGBA16F", 1))

\* setup, lines 147-159: irradiance cubemap.
ComputeIrradiance(s, fault) ==
    IF s.g.thrown THEN s
    ELSE IrradianceProgram(s,
             BuildProgram(s.g, <<<<"irmap_cs.glsl", "GL_COMPUTE_SHADER">>>>,
                          fault))

\* The dispatch of one level of the specular prefilter, lines 173-176;
\* the roughness uniform level * deltaRoughness is kept as a fraction.
SpmapLevel(g, program, spmap, level, size) ==
    LET g1 == glBindImageTexture(g, spmap.id, level, TRUE, "GL_RGBA16F")
        g2 == Log(g1, "glProgramUniform1f",
                  <<program, "SpecularMapRoughness",
                    <<level, Max(spmap.levels - 1, 1)>>>>)
    IN  glDispatchCompute(g2, Max(1, size \div GroupSize),
                          Max(1, size \div GroupSize), CubeFaces)

\* The loop with level < levels (a variant of SpmapLoop).
RECURSIVE SpmapLoop_exclusive(_, _, _, _, _)
SpmapLoop_exclusive(g, program, spmap, level, size) ==
    IF level < spmap.levels
    THEN SpmapLoop_exclusive(SpmapLevel(g, program, spmap, level, size),
                             program, spmap, level + 1, size \div 2)
    ELSE g

\* The dispatch loop of the specular prefilter, line 172.
RECURSIVE SpmapLoop(_, _, _, _, _)
SpmapLoop(g, program, spmap, level, size) ==
    IF level <= spmap.levels
    THEN SpmapLoop(SpmapLevel(g, program, spmap, level, size),
                   program, spmap, level + 1, size \div 2)
    ELSE g

\* Lines 170-178, with the program p and the specular cubemap sp.
SpecularDispatch(r, p, sp) ==
    LET g1 == glUseProgram(sp.g, p.v)
        g2 == glBindTextureUnit(g1, 0, r.m_envTexture.id)
        g3 == SpmapLoop(g2, p.v, sp.v, 0, EnvMapSize)
    IN  [g |-> glDelete(g3, "program", p.v, "glDeleteProgram"),
         r |-> [r EXCEPT !.m_spmapTexture = sp.v]]

SpecularProgram(s, p) ==
    IF p.g.thrown THEN [g |-> p.g, r |-> s.r]
    ELSE SpecularDispatch(s.r, p,
             createTexture(p.g, "GL_TEXTURE_CUBE_MAP", EnvMapSize, EnvMapSize,
                           "GL_RGBA16F", DefaultLevels))

\* setup, lines 162-179: pre-filtered specular cubemap.
PrefilterSpecular(s, fault) ==
    IF s.g.thrown THEN s
    ELSE SpecularProgram(s,
             BuildProgram(s.g, <<<<"spmap_cs.glsl", "GL_COMPUTE_SHADER">>>>,
                          fault))

\* Lines 189-192, with the program p and the lookup texture lut.
BRDFDispatch(r, p, lut) ==
    LET g1 == glUseProgram(lut.g, p.v)
        g2 == glBindImageTexture(g1, lut.v.id, 0, FALSE, "GL_RG16F")
        g3 == glDispatchCompute(g2, lut.v.width \div GroupSize,
                                lut.v.height \div GroupSize, 1)
    IN  [g |-> glDelete(g3, "program", p.v, "glDeleteProgram"),
         r |-> [r EXCEPT !.m_spBRDF_LUT = lut.v]]

BRDFProgram(s, p) ==
    IF p.g.thrown THEN [g |-> p.g, r |-> s.r]
    ELSE BRDFDispatch(s.r, p,
             createTexture(p.g, "GL_TEXTURE_2D", BRDFLutSize, BRDFLutSize,
                           "GL_RG16F", 1))

\* setup, lines 182-193: BRDF lookup table.
ComputeBRDFLut(s, fault) ==
    IF s.g.thrown THEN s
    ELSE BRDFProgram(s,
             BuildProgram(s.g, <<<<"spbrdf_cs.glsl", "GL_COMPUTE_SHADER">>>>,
                          fault))

\* glFinish, line 195.
Finish(s) == IF s.g.thrown THEN s ELSE [g |-> Log(s.g, "glFinish", <<>>), r |-> s.r]

setup(g, r, assets, fault) ==
    LET s1 == SetupAssets([g |-> g, r |-> r], assets, fault)
        s2 == EquirectToCube(s1, assets, fault)
        s3 == ComputeIrradiance(s2, fault)
        s4 == PrefilterSpecular(s3, fault)
    IN  Finish(ComputeBRDFLut(s4, fault))

\* The matrices of render, kept symbolic.
ProjMatrix(r, view) ==
    <<"perspectiveFov", view.fov, r.m_framebuffer.width, r.m_framebuffer.height,
      1, 1000>>
RotationMatrix(view) == <<"eulerAngleXY", view.pitch, view.yaw>>
ViewMatrix(view) == <<"translate", 0 - view.distance, RotationMatrix(view)>>

\* render with the two draw passes exchanged.
render_modelFirst(g, r, view) ==
    LET g4  == glBindFramebuffer(g, r.m_framebuffer.id)
        g5  == Log(g4, "glClear", <<"GL_DEPTH_BUFFER_BIT">>)
        g11 == glDepthTest(g5, TRUE)
        g12 == glUseProgram(g11, r.m_pbrProgram)
        g20 == glBindVertexArray(g12, r.m_pbrModel.vao)
        g21 == Log(g20, "glDrawElements",
                   <<"GL_TRIANGLES", r.m_pbrModel.numElements>>)
        g6  == glDepthTest(g21, FALSE)
        g7  == glUseProgram(g6, r.m_skyboxProgram)
        g8  == glBindTextureUnit(g7, 0, r.m_envTexture.id)
        g9  == glBindVertexArray(g8, r.m_skybox.vao)
        g10 == Log(g9, "glDrawElements",
                   <<"GL_TRIANGLES", r.m_skybox.numElements>>)
        g22 == resolveFramebuffer(g10, r.m_framebuffer, r.m_resolveFramebuffer)
        g23 == glBindFramebuffer(g22, 0)
        g24 == glUseProgram(g23, r.m_tonemapProgram)
        g25 == glBindTextureUnit(g24, 0, r.m_resolveFramebuffer.colorTarget)
        g26 == glBindVertexArray(g25, r.m_screenQuad.vao)
        g27 == Log(g26, "glDrawArrays", <<"GL_TRIANGLE_STRIP", 0, 4>>)
    IN  Log(g27, "glfwSwapBuffers", <<>>)

render(g, r, view) ==
    LET g1  == Log(g, "glProgramUniformMatrix4fv",
                   <<r.m_skyboxProgram, "ViewProjectionMatrix",
                     <<ProjMatrix(r, view), RotationMatrix(view)>>>>)
        g2  == Log(g1, "glProgramUniformMatrix4fv",
                   <<r.m_pbrProgram, "ViewProjectionMatrix",
                     <<ProjMatrix(r, view), ViewMatrix(view)>>>>)
        g3  == Log(g2, "glProgramUniform3fv",
                   <<r.m_pbrProgram, "EyePosition",
                     <<"inverse", ViewMatrix(view)>>>>)
        g4  == glBindFramebuffer(g3, r.m_framebuffer.id)
        g5  == Log(g4, "glClear", <<"GL_DEPTH_BUFFER_BIT">>)
        \* Draw skybox.
        g6  == glDepthTest(g5, FALSE)
        g7  == glUseProgram(g6, r.m_skyboxProgram)
        g8  == glBindTextureUnit(g7, 0, r.m_envTexture.id)
        g9  == glBindVertexArray(g8, r.m_skybox.vao)
        g10 == Log(g9, "glDrawElements",
                   <<"GL_TRIANGLES", r.m_skybox.numElements>>)
        \* Draw model.
        g11 == glDepthTest(g10, TRUE)
        g12 == glUseProgram(g11, r.m_pbrProgram)
        g13 == glBindTextureUnit(g12, 0, r.m_albedoTexture.id)
        g14 == glBindTextureUnit(g13, 1, r.m_normalTexture.id)
        g15 == glBindTextureUnit(g14, 2, r.m_metalnessTexture.id)
        g16 == glBindTextureUnit(g15, 3, r.m_roughnessTexture.id)
        g17 == glBindTextureUnit(g16, 4, r.m_irmapTexture.id)
        g18 == glBindTextureUnit(g17, 5, r.m_spmapTexture.id)
        g19 == glBindTextureUnit(g18, 6, r.m_spBRDF_LUT.id)
        g20 == glBindVertexArray(g19, r.m_pbrModel.vao)
        g21 == Log(g20, "glDrawElements",
                   <<"GL_TRIANGLES", r.m_pbrModel.numElements>>)
        \* Resolve multisample framebuffer.
        g22 == resolveFramebuffer(g21, r.m_framebuffer, r.m_resolveFramebuffer)
        \* Draw to window viewport.
        g23 == glBindFramebuffer(g22, 0)
        g24 == glUseProgram(g23, r.m_tonemapProgram)
        g25 == glBindTextureUnit(g24, 0, r.m_resolveFramebuffer.colorTarget)
        g26 == glBindVertexArray(g25, r.m_screenQuad.vao)
        g27 == Log(g26, "glDrawArrays", <<"GL_TRIANGLE_STRIP", 0, 4>>)
    IN  Log(g27, "glfwSwapBuffers", <<>>)

\* One member handle deleted and reset (s is [g, r]).
Delete(s, member, x) == [g |-> x.g, r |-> [s.r EXCEPT ![member] = x.v]]

DelFb(s, member) == Delete(s, member, deleteFrameBuffer(s.g, s.r[member]))
DelVb(s, member) == Delete(s, member, deleteVertexBuffer(s.g, s.r[member]))
DelTex(s, member) == Delete(s, member, deleteTexture(s.g, s.r[member]))
DelProg(s, member) ==
    [g |-> glDelete(s.g, "program", s.r[member], "glDeleteProgram"), r |-> s.r]

\* shutdown, lines 76-92: vertex buffers, programs, textures.
ShutdownRest(s) ==
    LET v1 == DelVb(s, "m_screenQuad")
        v2 == DelVb(v1, "m_skybox")
        v3 == DelVb(v2, "m_pbrModel")
        p1 == DelProg(v3, "m_tonemapProgram")
        p2 == DelProg(p1, "m_skyboxProgram")
        p3 == DelProg(p2, "m_pbrProgram")
        t1 == DelTex(p3, "m_envTexture")
        t2 == DelTex(t1, "m_irmapTexture")
        t3 == DelTex(t2, "m_spmapTexture")
        t4 == DelTex(t3, "m_spBRDF_LUT")
        t5 == DelTex(t4, "m_albedoTexture")
        t6 == DelTex(t5, "m_normalTexture")
        t7 == DelTex(t6, "m_metalnessTexture")
    IN  DelTex(t7, "m_roughnessTexture")

\* shutdown without the comparison of the two identifiers (a variant).
shutdown_both(g, r) ==
    LET s0 == [g |-> g, r |-> r]
        s1 == DelFb(s0, "m_resolveFramebuffer")
        s2 == DelFb(s1, "m_framebuffer")
    IN  ShutdownRest(s2)

shutdown(g, r) ==
    LET s0 == [g |-> g, r |-> r]
        s1 == IF r.m_framebuffer.id # r.m_resolveFramebuffer.id
              THEN DelFb(s0, "m_resolveFramebuffer")
              ELSE s0
        s2 == DelFb(s1, "m_framebuffer")
    IN  ShutdownRest(s2)

\* ============================================================ the state
VARIABLES
    gl,         \* the OpenGL backend, with the calls of the last handler
    renderer,   \* the members of the Renderer object
    phase,      \* "new", "initialized", "ready", "down" or "failed"
    frames,     \* render calls so far
    shutdowns,  \* shutdown calls so far
    last,       \* the last handler called and its arguments
    texture,    \* a Texture handle the factory operations are applied to
    fb,         \* a FrameBuffer handle the factory operations are applied to
    buffer      \* a VertexBuffer handle the factory operations are applied to

vars == <<gl, renderer, phase, frames, shutdowns, last, texture, fb, buffer>>
facadeVars == <<renderer, phase, frames, shutdowns>>
factoryVars == <<texture, fb, buffer>>

\* ---------------------------------------------------------------- inputs
WindowSizes == {<<4, 4>>, <<8, 4>>}
SampleCounts == 0 .. MaxSamples
LevelInputs == {-1, 0, 1, 2}
ColorFormats == {"GL_RGBA16F", "GL_NONE"}
DepthStencilFormats == {"GL_DEPTH24_STENCIL8", "GL_NONE"}
Meshes == {[vertices |-> 3, faces |-> 1], [vertices |-> 8, faces |-> 12]}

Image(w, h, hdr) == [width |-> w, height |-> h, hdr |-> hdr]
AssetSets ==
    {[skybox |-> [vertices |-> 8, faces |-> 12],
      model |-> [vertices |-> 3, faces |-> 1],
      albedo |-> Image(4, 4, FALSE), normal |-> Image(4, 4, FALSE),
      metalness |-> Image(4, 4, FALSE), roughness |-> Image(4, 4, FALSE),
      environment |-> Image(8, 4, TRUE)],
     [skybox |-> [vertices |-> 8, faces |-> 12],
      model |-> [vertices |-> 4, faces |-> 2],
      albedo |-> Image(1, 1, FALSE), normal |-> Image(2, 8, FALSE),
      metalness |-> Image(1, 1, FALSE), roughness |-> Image(3, 5, FALSE),
      environment |-> Image(2, 1, FALSE)]}

ShaderFiles ==
    {"passthrough_vs.glsl", "tonemap_fs.glsl", "skybox_vs.glsl",
     "skybox_fs.glsl", "pbr_vs.glsl", "pbr_fs.glsl", "equirect2cube_cs.glsl",
     "irmap_cs.glsl", "spmap_cs.glsl", "spbrdf_cs.glsl"}
ProgramFiles ==
    {"passthrough_vs.glsl", "skybox_vs.glsl", "pbr_vs.glsl",
     "equirect2cube_cs.glsl", "irmap_cs.glsl", "spmap_cs.glsl",
     "spbrdf_cs.glsl"}
NoFault == [kind |-> "none", file |-> ""]
Faults ==
    {NoFault}
    \cup {[kind |-> k, file |-> f] : k \in {"read", "compile"}, f \in ShaderFiles}
    \cup {[kind |-> "link", file |-> f] : f \in ProgramFiles}

Views ==
    {[fov |-> 45, pitch |-> 0, yaw |-> 0, distance |-> 0],
     [fov |-> 60, pitch |-> 10, yaw |-> 20, distance |-> 150]}

\* The backend at the start of a handler: no call issued yet.
Begin(g) == [g EXCEPT !.calls = <<>>, !.thrown = FALSE, !.asserted = FALSE]

Init ==
    /\ gl = NewGl
    /\ renderer = NewRenderer
    /\ phase = "new"
    /\ frames = 0
    /\ shutdowns = 0
    /\ last = [op |-> "none", arg |-> <<>>]
    /\ texture = DefaultTexture
    /\ fb = DefaultFrameBuffer
    /\ buffer = DefaultVertexBuffer

\* ------------------------------------------------ the facade's lifecycle
Initialize ==
    /\ phase = "new"
    /\ \E size \in WindowSizes, samples \in SampleCounts,
          windowOk, loaderOk, mainOk, resolveOk \in BOOLEAN :
          \E s \in {initialize(Begin(gl), renderer, size[1], size[2], samples,
                                windowOk, loaderOk, mainOk, resolveOk)} :
              /\ gl' = s.g
              /\ renderer' = s.r
              /\ phase' = IF s.g.thrown THEN "failed" ELSE "initialized"
              /\ last' = [op |-> "initialize", arg |-> [samples |-> samples]]
    /\ UNCHANGED <<frames, shutdowns, factoryVars>>

Setup ==
    /\ phase = "initialized"
    /\ \E assets \in AssetSets, fault \in Faults :
          \E s \in {setup(Begin(gl), renderer, assets, fault)} :
              /\ gl' = s.g
              /\ renderer' = s.r
              /\ phase' = IF s.g.thrown THEN "failed" ELSE "ready"
              /\ last' = [op |-> "setup", arg |-> [fault |-> fault]]
    /\ UNCHANGED <<frames, shutdowns, factoryVars>>

Render ==
    /\ phase = "ready"
    /\ frames < MaxFrames
    /\ \E view \in Views :
          /\ gl' = render(Begin(gl), renderer, view)
          /\ last' = [op |-> "render",
                      arg |-> [src |-> renderer.m_framebuffer,
                               dst |-> renderer.m_resolveFramebuffer]]
    /\ frames' = frames + 1
    /\ UNCHANGED <<renderer, phase, shutdowns, factoryVars>>

\* resolveFramebuffer called on its own with the facade's framebuffers.
Resolve ==
    /\ phase \in {"initialized", "ready"}
    /\ \E src, dst \in {"m_framebuffer", "m_resolveFramebuffer"} :
          /\ gl' = resolveFramebuffer(Begin(gl), renderer[src], renderer[dst])
          /\ last' = [op |-> "resolveFramebuffer",
                      arg |-> [src |-> renderer[src], dst |-> renderer[dst]]]
    /\ UNCHANGED <<facadeVars, factoryVars>>

Shutdown ==
    /\ phase \in {"initialized", "ready", "down"}
    /\ shutdowns < MaxShutdowns
    /\ \E s \in {shutdown(Begin(gl), renderer)} :
           /\ gl' = s.g
           /\ renderer' = s.r
    /\ phase' = "down"
    /\ shutdowns' = shutdowns + 1
    /\ last' = [op |-> "shutdown", arg |-> renderer]
    /\ UNCHANGED <<frames, factoryVars>>

Next == Initialize \/ Setup \/ Render \/ Resolve \/ Shutdown

Spec == Init /\ [][Next]_vars

\* ------------------------------------- the factory operations on their own
\* One handle is exercised at a time: a handle is created while all three
\* are empty.
AllEmpty ==
    /\ texture = DefaultTexture
    /\ fb = DefaultFrameBuffer
    /\ buffer = DefaultVertexBuffer

CanCreate == Cardinality(Objects(gl)) < MaxObjects

CreateTexture ==
    /\ CanCreate
    /\ AllEmpty
    /\ \E width, height \in 1 .. MaxDim, levels \in LevelInputs :
          \E t \in {createTexture(Begin(gl), "GL_TEXTURE_2D", width, height,
                                   "GL_RGBA16F", levels)} :
              /\ gl' = t.g
              /\ texture' = t.v
              /\ last' = [op |-> "createTexture",
                          arg |-> [width |-> width, height |-> height,
                                   levels |-> levels]]
    /\ UNCHANGED <<facadeVars, fb, buffer>>

DeleteTexture ==
    /\ \E t \in {deleteTexture(Begin(gl), texture)} :
           /\ gl' = t.g
           /\ texture' = t.v
    /\ last' = [op |-> "deleteTexture", arg |-> [id |-> texture.id]]
    /\ UNCHANGED <<facadeVars, fb, buffer>>

CreateFrameBuffer ==
    /\ CanCreate
    /\ AllEmpty
    /\ \E size \in WindowSizes, samples \in SampleCounts,
          colorFormat \in ColorFormats,
          depthstencilFormat \in DepthStencilFormats, backendOk \in BOOLEAN :
          \E f \in {createFrameBuffer(Begin(gl), size[1], size[2], samples,
                                       colorFormat, depthstencilFormat,
                                       backendOk)} :
              /\ gl' = f.g
              /\ fb' = IF f.g.thrown THEN fb ELSE f.v
              /\ last' = [op |-> "createFrameBuffer",
                          arg |-> [samples |-> samples,
                                   colorFormat |-> colorFormat,
                                   depthstencilFormat |-> depthstencilFormat]]
    /\ UNCHANGED <<facadeVars, texture, buffer>>

DeleteFrameBuffer ==
    /\ \E f \in {deleteFrameBuffer(Begin(gl), fb)} :
           /\ gl' = f.g
           /\ fb' = f.v
    /\ last' = [op |-> "deleteFrameBuffer", arg |-> fb]
    /\ UNCHANGED <<facadeVars, texture, buffer>>

CreateVertexBuffer ==
    /\ CanCreate
    /\ AllEmpty
    /\ \E mesh \in Meshes :
          \E b \in {createVertexBuffer(Begin(gl), mesh)} :
              /\ gl' = b.g
              /\ buffer' = b.v
              /\ last' = [op |-> "createVertexBuffer", arg |-> mesh]
    /\ UNCHANGED <<facadeVars, texture, fb>>

CreateClipSpaceQuad ==
    /\ CanCreate
    /\ AllEmpty
    /\ \E b \in {createClipSpaceQuad(Begin(gl))} :
           /\ gl' = b.g
           /\ buffer' = b.v
    /\ last' = [op |-> "createClipSpaceQuad", arg |-> <<>>]
    /\ UNCHANGED <<facadeVars, texture, fb>>

DeleteVertexBuffer ==
    /\ \E b \in {deleteVertexBuffer(Begin(gl), buffer)} :
           /\ gl' = b.g
           /\ buffer' = b.v
    /\ last' = [op |-> "deleteVertexBuffer", arg |-> buffer]
    /\ UNCHANGED <<facadeVars, texture, fb>>

FactoryNext ==
    \/ CreateTexture \/ DeleteTexture
    \/ CreateFrameBuffer \/ DeleteFrameBuffer
    \/ CreateVertexBuffer \/ CreateClipSpaceQuad \/ DeleteVertexBuffer

FactorySpec == Init /\ [][FactoryNext]_vars

\* ============================================================ the claims
Calls == gl.calls
Issued(call) == \E i \in 1 .. Len(Calls) : Calls[i].call = call
Range(q) == {q[i] : i \in 1 .. Len(q)}

\* floor(log2(n)) for n >= 1, by its definition.
FloorLog2(n) == CHOOSE k \in 0 .. 20 : Pow2(k) <= n /\ n < Pow2(k + 1)

\* C1: createTexture called with levels <= 0 returns a Texture whose levels
\* field is 1 + floor(log2(max(width, height))); called with levels = 1 it
\* returns a Texture whose levels field is exactly 1.
C1_DerivedLevels ==
    last.op = "createTexture" =>
        /\ last.arg.levels <= 0 =>
               texture.levels
                   = 1 + FloorLog2(Max(last.arg.width, last.arg.height))
        /\ last.arg.levels = 1 => texture.levels = 1

C1_Witness ==
    /\ last.op = "createTexture"
    /\ last.arg.levels <= 0
    /\ last.arg.width = 3
    /\ last.arg.height = 5
    /\ texture.levels = 3

\* C2: after deleteTexture, deleteFrameBuffer or deleteVertexBuffer returns,
\* every field of the handle passed to it is zero, whatever it held before.
C2_DeletedHandleIsZero ==
    /\ last.op = "deleteTexture" =>
           texture = [id |-> 0, width |-> 0, height |-> 0, levels |-> 0]
    /\ last.op = "deleteFrameBuffer" =>
           fb = [id |-> 0, width |-> 0, height |-> 0, samples |-> 0,
                 colorTarget |-> 0, depthStencilTarget |-> 0]
    /\ last.op = "deleteVertexBuffer" =>
           buffer = [vbo |-> 0, ibo |-> 0, vao |-> 0, numElements |-> 0]

C2_Witness ==
    /\ last.op = "deleteFrameBuffer"
    /\ last.arg.id # 0
    /\ last.arg.samples > 0
    /\ last.arg.colorTarget # 0
    /\ fb.id = 0

\* C3: resolveFramebuffer issues no backend call when src and dst carry the
\* same framebuffer identifier; after initialize with samples = 0 no render
\* call issues a blit or an invalidate.
C3_SameFramebufferNoCalls ==
    /\ (last.op = "resolveFramebuffer" /\ last.arg.src.id = last.arg.dst.id)
           => Calls = <<>>
    /\ (last.op = "render"
        /\ (last.arg.src.id = last.arg.dst.id
            \/ renderer.m_framebuffer.samples = 0))
           => /\ ~Issued("glBlitNamedFramebuffer")
              /\ ~Issued("glInvalidateNamedFramebufferData")

C3_Witness ==
    /\ last.op = "render"
    /\ frames = 2
    /\ renderer.m_framebuffer.samples = 0
    /\ renderer.m_framebuffer.id # 0
    /\ renderer.m_framebuffer.id = renderer.m_resolveFramebuffer.id

\* C4: the specular prefilter stage of setup issues exactly levels + 1
\* dispatches for an output texture with `levels` mip levels, for
\* L = 0 .. levels in increasing order, the dispatch for level L with group
\* count max(1, (1024 >> L) / 32) in x and y and 6 in z.
IsSpmapDispatch(e) ==
    /\ e.call = "glDispatchCompute"
    /\ e.ctx.img.name = renderer.m_spmapTexture.id

SpmapDispatches == SelectSeq(Calls, IsSpmapDispatch)

C4_SpecularDispatches ==
    (last.op = "setup" /\ phase = "ready") =>
        /\ Len(SpmapDispatches) = renderer.m_spmapTexture.levels + 1
        /\ \A k \in 1 .. Len(SpmapDispatches) :
              LET groups == Max(1, ShiftRight(1024, k - 1) \div 32)
              IN  /\ SpmapDispatches[k].ctx.img.level = k - 1
                  /\ SpmapDispatches[k].args = <<groups, groups, 6>>

C4_Witness ==
    /\ last.op = "setup"
    /\ phase = "ready"
    /\ renderer.m_spmapTexture.levels = 11
    /\ Len(SpmapDispatches) = 12
    /\ SpmapDispatches[12].args = <<1, 1, 6>>

\* C5: in setup, between every compute dispatch that writes a texture through
\* an image unit and the next operation that reads that texture (mip
\* generation, or a later dispatch with the texture bound to a texture unit)
\* a memory barrier is issued.
WritesTexture(e, t) == e.call = "glDispatchCompute" /\ e.ctx.img.name = t

ReadsTexture(e, t) ==
    \/ e.call = "glGenerateTextureMipmap" /\ e.args = <<t>>
    \/ /\ e.call = "glDispatchCompute"
       /\ \E u \in TextureUnits : e.ctx.tex[u] = t

C5_BarrierBetweenWriteAndRead ==
    last.op = "setup" =>
        \A i, j \in 1 .. Len(Calls) :
            (/\ i < j
             /\ \E t \in 1 .. Len(gl.objs["texture"]) :
                   WritesTexture(Calls[i], t) /\ ReadsTexture(Calls[j], t))
            => \E k \in (i + 1) .. (j - 1) : Calls[k].call = "glMemoryBarrier"

\* C6: deleteFrameBuffer on a framebuffer createFrameBuffer returned destroys
\* each attachment with the destructor of the storage kind it was created
\* with (the color target a texture when samples = 0 and a renderbuffer when
\* samples > 0, the depth/stencil target a renderbuffer), and destroys
\* nothing for an absent attachment.
KindOfCall(call) ==
    CASE call = "glDeleteFramebuffers" -> "framebuffer"
      [] call = "glDeleteTextures" -> "texture"
      [] call = "glDeleteRenderbuffers" -> "renderbuffer"
      [] OTHER -> "none"

Destroyed == {<<KindOfCall(Calls[i].call), Calls[i].args[1]>> : i \in 1 .. Len(Calls)}

AttachmentsOf(fbid) == {gl.fbo[fbid].color, gl.fbo[fbid].depth} \ {NoAttachment}

C6_AttachmentDestructors ==
    (last.op = "deleteFrameBuffer" /\ last.arg.id # 0) =>
        /\ Destroyed = {<<"framebuffer", last.arg.id>>} \cup AttachmentsOf(last.arg.id)
        /\ Len(Calls) = 1 + Cardinality(AttachmentsOf(last.arg.id))
        /\ \A o \in AttachmentsOf(last.arg.id) : Deletes(gl, o) = 1
        /\ gl.fbo[last.arg.id].color # NoAttachment =>
               gl.fbo[last.arg.id].color[1]
                   = (IF last.arg.samples = 0 THEN "texture" ELSE "renderbuffer")
        /\ gl.fbo[last.arg.id].depth # NoAttachment =>
               gl.fbo[last.arg.id].depth[1] = "renderbuffer"

C6_Witness ==
    /\ last.op = "deleteFrameBuffer"
    /\ last.arg.id # 0
    /\ last.arg.samples > 0
    /\ gl.fbo[last.arg.id].color = <<"renderbuffer", last.arg.colorTarget>>
    /\ gl.fbo[last.arg.id].depth = NoAttachment
    /\ Deletes(gl, <<"renderbuffer", last.arg.colorTarget>>) = 1

\* C7: in every resolveFramebuffer call that does not return early the
\* attachment list passed to the invalidate call holds the color attachment
\* iff src has a color target and the depth/stencil attachment iff src has a
\* depth/stencil target, and it is not empty: the assertion holds.
IsInvalidate(e) == e.call = "glInvalidateNamedFramebufferData"

Invalidates == SelectSeq(Calls, IsInvalidate)

C7_InvalidatedAttachments ==
    (last.op \in {"render", "resolveFramebuffer"}
     /\ last.arg.src.id # last.arg.dst.id) =>
        /\ Len(Invalidates) = 1
        /\ Invalidates[1].args[1] = last.arg.src.id
        /\ ("GL_COLOR_ATTACHMENT0" \in Range(Invalidates[1].args[2]))
               <=> (last.arg.src.colorTarget # 0)
        /\ ("GL_DEPTH_STENCIL_ATTACHMENT" \in Range(Invalidates[1].args[2]))
               <=> (last.arg.src.depthStencilTarget # 0)
        /\ Len(Invalidates[1].args[2]) > 0
        /\ ~gl.asserted

C7_Witness ==
    /\ last.op = "render"
    /\ last.arg.src.id # last.arg.dst.id
    /\ Len(Invalidates) = 1
    /\ Invalidates[1].args[2]
           = <<"GL_COLOR_ATTACHMENT0", "GL_DEPTH_STENCIL_ATTACHMENT">>

\* C8: every render call issues, in this order: bind the main framebuffer,
\* clear depth only, skybox draw with the depth test disabled, model draw
\* with the depth test enabled, resolve of the main framebuffer into the
\* resolve framebuffer, bind the default target, tonemap draw of the 4-vertex
\* strip sampling the resolve framebuffer's color target, present; the model
\* draw never precedes the skybox draw and present is last.
IsMilestone(e) ==
    e.call \in {"glBindFramebuffer", "glClear", "glDrawElements",
                "glBlitNamedFramebuffer", "glDrawArrays", "glfwSwapBuffers"}

Milestones == SelectSeq(Calls, IsMilestone)

\* The milestones after the two draw passes: those from position n on.
AfterResolve(n) ==
    /\ Milestones[n].call = "glBindFramebuffer"
    /\ Milestones[n].args = <<0>>
    /\ Milestones[n + 1].call = "glDrawArrays"
    /\ Milestones[n + 1].args = <<"GL_TRIANGLE_STRIP", 0, 4>>
    /\ Milestones[n + 1].ctx.fb = 0
    /\ Milestones[n + 1].ctx.program = renderer.m_tonemapProgram
    /\ Milestones[n + 1].ctx.vao = renderer.m_screenQuad.vao
    /\ Milestones[n + 1].ctx.tex[0] = renderer.m_resolveFramebuffer.colorTarget
    /\ Milestones[n + 2].call = "glfwSwapBuffers"
    /\ Len(Milestones) = n + 2

C8_FrameOrder ==
    last.op = "render" =>
        /\ Len(Milestones) >= 7
        /\ Milestones[1].call = "glBindFramebuffer"
        /\ Milestones[1].args = <<renderer.m_framebuffer.id>>
        /\ Milestones[2].call = "glClear"
        /\ Milestones[2].args = <<"GL_DEPTH_BUFFER_BIT">>
        /\ Milestones[3].call = "glDrawElements"
        /\ Milestones[3].ctx.program = renderer.m_skyboxProgram
        /\ Milestones[3].ctx.vao = renderer.m_skybox.vao
        /\ Milestones[3].ctx.fb = renderer.m_framebuffer.id
        /\ ~Milestones[3].ctx.depthTest
        /\ Milestones[4].call = "glDrawElements"
        /\ Milestones[4].ctx.program = renderer.m_pbrProgram
        /\ Milestones[4].ctx.vao = renderer.m_pbrModel.vao
        /\ Milestones[4].ctx.fb = renderer.m_framebuffer.id
        /\ Milestones[4].ctx.depthTest
        /\ IF renderer.m_framebuffer.id # renderer.m_resolveFramebuffer.id
           THEN /\ Milestones[5].call = "glBlitNamedFramebuffer"
                /\ Milestones[5].args[1] = renderer.m_framebuffer.id
                /\ Milestones[5].args[2] = renderer.m_resolveFramebuffer.id
                /\ AfterResolve(6)
           ELSE AfterResolve(5)
        /\ Calls[Len(Calls)].call = "glfwSwapBuffers"

C8_Witness ==
    /\ last.op = "render"
    /\ frames = 2
    /\ Len(Milestones) = 8
    /\ Milestones[5].call = "glBlitNamedFramebuffer"

\* C9: over a successful run initialize; setup; render calls; shutdown, every
\* backend object created is destroyed exactly once: none is left alive
\* after shutdown and none is destroyed twice.
C9_DestroyedExactlyOnce ==
    /\ shutdowns <= 1 => DeletedTwice(gl) = {}
    /\ (phase = "down" /\ shutdowns = 1) =>
           \A o \in Objects(gl) : Deletes(gl, o) = 1

C9_Witness ==
    /\ phase = "down"
    /\ shutdowns = 1
    /\ frames = 2
    /\ Len(gl.objs["framebuffer"]) = 2
    /\ Len(gl.objs["program"]) = 7
    /\ Len(gl.objs["shader"]) = 10
    /\ Len(gl.objs["texture"]) = 10
    /\ Alive(gl) = {}

\* C10: after initialize followed by shutdown, neither m_framebuffer nor
\* m_resolveFramebuffer holds the identifier of a destroyed backend object,
\* so a second shutdown destroys no object a second time.
Dangling(h) ==
    \/ h.id # 0 /\ Deletes(gl, <<"framebuffer", h.id>>) > 0
    \/ h.colorTarget # 0 /\ Deletes(gl, <<ColorTargetKind(h), h.colorTarget>>) > 0
    \/ h.depthStencilTarget # 0
       /\ Deletes(gl, <<"renderbuffer", h.depthStencilTarget>>) > 0

C10_NoDanglingFramebuffer ==
    /\ phase = "down" =>
           /\ ~Dangling(renderer.m_framebuffer)
           /\ ~Dangling(renderer.m_resolveFramebuffer)
    /\ DeletedTwice(gl) = {}

====
